---- MODULE Spec2Model ----
(***************************************************************************)
(* Model of the address-to-coordinate enrichment of                        *)
(* TepidmishA/newborns-clusterization:                                     *)
(*   src/src/geo_coordinates/geo_multiple_workers.py  (thread-pool driver) *)
(*   src/src/geo_coordinates/geo_coordinates.py       (sequential driver,  *)
(*                                                     provider classes)   *)
(* SpecMW  : CoordinatesAdderMultiWorker.add_coordinates_and_save run by   *)
(*           GeoCheckOSMMulti, one action per step of the driver thread    *)
(*           and of the pool's worker threads.                             *)
(* SpecSeq : CoordinatesAdder.add_coordinates_and_save run by one of the   *)
(*           sequential geocoder classes, one action per HTTP request.     *)
(***************************************************************************)
EXTENDS Integers, Sequences, FiniteSets, TLC

\* ------------------------------------------------------------------ bounds
MaxRows == 2          \* data rows of the input file, concurrent driver
MaxWorkers == 2       \* largest max_workers tried
MaxSeqRows == 2       \* data rows of the input file, sequential driver
QuotaSlack == 1       \* how far below the limit the quota counter may start
QuotaThreads == 2     \* threads inside get_coordinates_GeocodeMapsCo at once
MaxLines == 3         \* lines of the file given to read() / filter()

\* ------------------------------------------------------------ input values
\* Python's None.  Floats are modelled by naturals, so None is outside them.
None == 0 - 1

\* values a geocoding service can send as latitude / longitude (0 is 0.0)
CoordVals == {0, 1}

\* the location strings of the input file (third column)
Address == {"a", "b"}

\* hospital_num, history_num, location, *_ = row
\* (docstring: "hospital_num, history_num, location, ..."; the model keeps
\*  the three leading fields, every input row has them).  A file may repeat
\* a row, so the sample rows give identical rows, different rows with the
\* same location, and rows with different locations.
Rows == {<<1, 1, "a">>, <<1, 2, "a">>, <<1, 3, "b">>}

Location(row) == row[3]

\* header = next(reader)
Header == <<"hospital_num", "history_num", "location">>

InputFiles(n) == UNION {[1..k -> Rows] : k \in 0..n}

\* What one HTTP exchange with a geocoding service can look like.
\*   Timeout    requests.get raises requests.Timeout / ConnectionError
\*   Non2xx     raise_for_status raises requests.HTTPError
\*   NotJson    response.json() raises requests.JSONDecodeError
\*   NoResult   well-formed answer that holds no match (empty list / object)
\*   MissingKeys  non-empty answer without the expected keys
\*   BadNumber  expected keys present, value is not a number string
\*   WrongType  expected keys present, value is null / wrong container
\*   Good       expected keys present, (lat, lon) parse as floats
FailShapes == {"Timeout", "Non2xx", "NotJson", "NoResult",
               "MissingKeys", "BadNumber", "WrongType"}

Shape(t, la, lo) == [t |-> t, lat |-> la, lon |-> lo]

Responses ==
  {Shape(t, None, None) : t \in FailShapes}
    \cup {Shape("Good", la, lo) : la \in CoordVals, lo \in CoordVals}

\* the answers tried for the calls of the thread pool: the same shapes, with
\* one coordinate value per answer
PoolResponses == {r \in Responses : r.lat = r.lon}

\* no request has been answered yet
NoResponse == Shape("none", None, None)

\* --------------------------------------------------- python exception model
\* exception raised by the statements of a provider's try body for a response
\* (requests.get / raise_for_status / json() / data[...] / float(...))
BodyRaises(resp) ==
  CASE resp.t = "Timeout"     -> "Timeout"
    [] resp.t = "Non2xx"      -> "HTTPError"
    [] resp.t = "NotJson"     -> "JSONDecodeError"
    [] resp.t = "MissingKeys" -> "KeyError"
    [] resp.t = "BadNumber"   -> "ValueError"
    [] resp.t = "WrongType"   -> "TypeError"
    [] OTHER                  -> "none"

\* except requests.RequestException
\* (requests.JSONDecodeError derives from both RequestException and ValueError)
IsRequestException(exc) == exc \in {"Timeout", "HTTPError", "JSONDecodeError"}

\* except ValueError
IsValueError(exc) == exc \in {"ValueError", "JSONDecodeError"}

\* except TypeError
IsTypeError(exc) == exc = "TypeError"

\* the result of one call: a returned pair or a propagated exception
Returned(la, lo) == [kind |-> "ret", lat |-> la, lon |-> lo, exc |-> "none"]
Raised(exc) == [kind |-> "raise", lat |-> None, lon |-> None, exc |-> exc]

\* ------------------------------------------------------------------- state
VARIABLES
  rows,          \* rows = list(reader): the data rows of the input file
  max_workers,   \* add_coordinates_and_save(max_workers=5)
  pc,            \* position of the driver thread
  submitted,     \* number of executor.submit calls made so far
  future,        \* future[i]: state and outcome of the i-th submitted call
  snapshot,      \* as_completed: futures found finished when it was called
  waiter,        \* as_completed: futures finished later, in finishing order
  yielded,       \* futures as_completed has handed to the loop
  resolutions,   \* resolutions[a]: get_coordinates(a) invocations so far
  output,        \* rows written by writer.writerow, in writing order
  geocoder,      \* the class whose add_coordinates_and_save is running
  cur,           \* sequential driver: index of the row being processed
  method,        \* position inside get_coordinates (attempt / chain index)
  calls,         \* HTTP requests made for the current row, in order
  response,      \* the answer to the latest HTTP request of the driver
  currGeocodeMapsCo,  \* the module-level counter of geo_coordinates.py
  metered,       \* geocode.maps.co: counter value at the start of the run
                 \* and number of requests sent to it during the run
  error,         \* exception that left add_coordinates_and_save
  threads,       \* threads inside get_coordinates_GeocodeMapsCo at once
  tool,          \* "CsvReader" (read) or "SkipFilter" (filter)
  add_header,    \* CsvReader.add_header
  file,          \* lines of the input file the csv.reader has handed out
  csv_pc,        \* position inside read() / filter()
  parsed_data,   \* CsvReader.read: the list parsed_data
  filtered,      \* SkipFilter.filter: rows written to filtered_data.csv
  csv_error      \* exception that left read() / filter()

mwVars == <<max_workers, submitted, future, snapshot, waiter, yielded>>
seqVars == <<geocoder, cur, method, calls, response, currGeocodeMapsCo,
            metered, error>>
csvVars == <<tool, add_header, file, csv_pc, parsed_data, filtered, csv_error>>
auxVars == <<threads, csvVars>>
vars == <<rows, pc, resolutions, output, mwVars, seqVars, auxVars>>

\* global currGeocodeMapsCo: the module never assigns the name, so it is
\* unbound unless the importing program sets the module attribute
Unbound == 0 - 2

\* self.get_coordinates(a) is entered once more
CountFirstOnly(res, a) == IF res[a] > 0 THEN res ELSE [res EXCEPT ![a] = @ + 1]
Count(res, a) == [res EXCEPT ![a] = @ + 1]

\* ----------------------------------------------------------- output rows
\* writer.writerow(["latitude", "longitude"] + header)
HeaderRow == [cells |-> <<"latitude", "longitude">> \o Header,
              lat |-> None, lon |-> None, row |-> <<>>, src |-> 0]

\* new_row = [latitude, longitude] + row      (src: index of the input row,
\* kept beside the written cells to tell identical rows apart)
DataRow(la, lo, row, i) ==
  [cells |-> <<>>, lat |-> la, lon |-> lo, row |-> row, src |-> i]

\* ---------------------------------- GeoCheckOSMMulti.get_coordinates(addr)
GeoCheckOSMMulti_get_coordinates(resp) ==
  LET exc == BodyRaises(resp) IN
    IF exc = "none"
      THEN IF resp.t = "Good" THEN Returned(resp.lat, resp.lon)
                              ELSE Returned(None, None)
      ELSE IF IsRequestException(exc) THEN Returned(None, None)
                                       ELSE Raised(exc)

\* ------------------------------ CoordinatesAdderMultiWorker, driver thread
NoFuture == [st |-> "none", arg |-> "", res |-> Returned(None, None)]

\* executor.submit(self.get_coordinates, addr): the address handed to the
\* call whose future is mapped to rows[i]   (zip(rows, addresses))
SubmittedArgOfFirstRow(rs, i) == Location(rs[1])
SubmittedArg(rs, i) == Location(rs[i])

\* zip(rows, addresses): the rows that get a future
RowsToSubmitOncePerAddress(rs) ==
  {i \in 1..Len(rs) : \A j \in 1..(i - 1) : Location(rs[j]) # Location(rs[i])}
RowsToSubmit(rs) == 1..Len(rs)

\* as_completed installs its waiter on the futures when its generator starts;
\* from then on a finishing future is appended to waiter.finished_futures
WaiterInstalledAtSubmit == pc \in {"submit", "collect"}
WaiterInstalled == pc = "collect"

\* try: latitude, longitude = future.result()
\* except Exception: latitude, longitude = None, None
CollectResultNoTry(f) ==
  [abort |-> f.res.kind = "raise", lat |-> f.res.lat, lon |-> f.res.lon]
CollectResult(f) ==
  IF f.res.kind = "raise"
    THEN [abort |-> FALSE, lat |-> None, lon |-> None]
    ELSE [abort |-> FALSE, lat |-> f.res.lat, lon |-> f.res.lon]

Running == {i \in DOMAIN future : future[i].st = "running"}
Pending == {i \in DOMAIN future : future[i].st = "pending"}
Finished == {i \in DOMAIN future : future[i].st = "finished"}

\* ThreadPoolExecutor(max_workers=max_workers): a queued call is taken only
\* while fewer than max_workers threads are busy
PoolAlwaysHasFreeWorker == TRUE
PoolHasFreeWorker == Cardinality(Running) < max_workers

\* no thread is inside get_coordinates_GeocodeMapsCo, and neither read() nor
\* filter() has been called
IdleQuota == threads = <<>>
IdleCsv ==
  /\ tool = "none"
  /\ add_header = TRUE
  /\ file = <<>>
  /\ csv_pc = "none"
  /\ parsed_data = <<>>
  /\ filtered = <<>>
  /\ csv_error = "none"

InitMW ==
  /\ rows \in InputFiles(MaxRows)
  /\ max_workers \in 1..MaxWorkers
  /\ pc = "open"
  /\ submitted = 0
  /\ future = [i \in DOMAIN rows |-> NoFuture]
  /\ snapshot = {}
  /\ waiter = <<>>
  /\ yielded = {}
  /\ resolutions = [a \in Address |-> 0]
  /\ output = <<>>
  /\ geocoder = "GeoCheckOSMMulti"
  /\ cur = 0
  /\ method = 0
  /\ calls = <<>>
  /\ response = NoResponse
  /\ currGeocodeMapsCo = Unbound
  /\ metered = [start |-> Unbound, sent |-> 0]
  /\ error = "none"
  /\ IdleQuota
  /\ IdleCsv

\* header = next(reader); writer.writerow(["latitude", "longitude"] + header)
\* rows = list(reader); addresses = [row[2] for row in rows]
MW_WriteHeader ==
  /\ pc = "open"
  /\ output' = Append(output, HeaderRow)
  /\ pc' = "submit"
  /\ UNCHANGED <<rows, resolutions, mwVars, seqVars, auxVars>>

\* executor.submit(self.get_coordinates, addr) for the next (row, addr)
MW_Submit ==
  /\ pc = "submit"
  /\ submitted < Len(rows)
  /\ submitted' = submitted + 1
  /\ future' = IF submitted + 1 \in RowsToSubmit(rows)
                 THEN [future EXCEPT
                         ![submitted + 1].st = "pending",
                         ![submitted + 1].arg = SubmittedArg(rows, submitted + 1)]
                 ELSE future
  /\ UNCHANGED <<rows, max_workers, pc, snapshot, waiter, yielded,
                 resolutions, output, seqVars, auxVars>>

\* for future in as_completed(future_to_row): the first step of the generator
\* collects the futures that are already finished (a set, no order)
MW_AsCompleted ==
  /\ pc = "submit"
  /\ submitted = Len(rows)
  /\ snapshot' = Finished
  /\ pc' = "collect"
  /\ UNCHANGED <<rows, max_workers, submitted, future, waiter, yielded,
                 resolutions, output, seqVars, auxVars>>

\* a pool thread takes the oldest queued call and enters get_coordinates;
\* the pool never has more than max_workers threads
MW_WorkerStart ==
  /\ Pending # {}
  /\ PoolHasFreeWorker
  /\ LET i == CHOOSE j \in Pending : \A k \in Pending : j <= k IN
       /\ future' = [future EXCEPT ![i].st = "running"]
       /\ resolutions' = Count(resolutions, future[i].arg)
  /\ UNCHANGED <<rows, max_workers, pc, submitted, snapshot, waiter, yielded,
                 output, seqVars, auxVars>>

\* get_coordinates returns or raises; the future is set and, once
\* as_completed has installed its waiter, appended to the waiter's list
MW_WorkerFinish(i, resp) ==
  /\ i \in Running
  /\ future' = [future EXCEPT
                  ![i].st = "finished",
                  ![i].res = GeoCheckOSMMulti_get_coordinates(resp)]
  /\ waiter' = IF WaiterInstalled THEN Append(waiter, i) ELSE waiter
  /\ UNCHANGED <<rows, max_workers, pc, submitted, snapshot, yielded,
                 resolutions, output, seqVars, auxVars>>

\* one iteration of the as_completed loop for future i
MW_Write(i) ==
  LET h == CollectResult(future[i]) IN
    /\ yielded' = yielded \cup {i}
    /\ IF h.abort
         THEN /\ pc' = "aborted"
              /\ output' = output
         ELSE /\ pc' = pc
              /\ output' = Append(output, DataRow(h.lat, h.lon, rows[i], i))
    /\ UNCHANGED <<rows, max_workers, submitted, future, resolutions,
                   seqVars, auxVars>>

\* as_completed yields the futures of its first snapshot, in any order
MW_CollectSnapshot ==
  /\ pc = "collect"
  /\ \E i \in snapshot :
       /\ snapshot' = snapshot \ {i}
       /\ waiter' = waiter
       /\ MW_Write(i)

\* then the futures that finished later, in the order they finished
MW_CollectWaiter ==
  /\ pc = "collect"
  /\ snapshot = {}
  /\ waiter # <<>>
  /\ snapshot' = snapshot
  /\ waiter' = Tail(waiter)
  /\ MW_Write(Head(waiter))

\* the loop ends when every future has been yielded; the with-blocks close
MW_Close ==
  /\ pc = "collect"
  /\ yielded = {i \in DOMAIN future : future[i].st # "none"}
  /\ Pending = {} /\ Running = {}
  /\ pc' = "done"
  /\ UNCHANGED <<rows, resolutions, output, mwVars, seqVars, auxVars>>

NextMW ==
  \/ MW_WriteHeader
  \/ MW_Submit
  \/ MW_AsCompleted
  \/ MW_WorkerStart
  \/ \E i \in DOMAIN future, resp \in PoolResponses : MW_WorkerFinish(i, resp)
  \/ MW_CollectSnapshot
  \/ MW_CollectWaiter
  \/ MW_Close

SpecMW == InitMW /\ [][NextMW]_vars

\* =========================================================================
\* Sequential driver: CoordinatesAdder.add_coordinates_and_save and the
\* get_coordinates of the classes of geo_coordinates.py
\* =========================================================================

\* the concrete subclasses of CoordinatesAdder
Geocoders == {"YandexMap", "NominatimOSM", "PhotonOSM",
              "MultiServiceGeocoder", "GeoCheckOSM"}

\* if currGeocodeMapsCo > 4800
GeocodeMapsCoLimit == 4800

\* for attempt in range(3)
Attempts == 3

\* if latitude and longitude  (None and 0.0 are both false)
Truthy(x) == x # None /\ x # 0

\* "latt" in data and "longt" in data: an answer without the keys is not an
\* error for the geocode.xyz parsers, every other parser indexes the keys
PhotonBodyRaises(resp) ==
  IF resp.t = "MissingKeys" THEN "none" ELSE BodyRaises(resp)

\* what a try body leaves when no exception is raised
BodyValue(resp) ==
  IF resp.t = "Good" THEN Returned(resp.lat, resp.lon)
                     ELSE Returned(None, None)

\* YandexMap.get_coordinates: except requests.RequestException
YandexMap_get_coordinates(resp) ==
  LET exc == BodyRaises(resp) IN
    IF exc = "none" THEN BodyValue(resp)
    ELSE IF IsRequestException(exc) THEN Returned(None, None)
    ELSE Raised(exc)

\* GeoCheckOSM.get_coordinates: except RequestException, ValueError, TypeError
GeoCheckOSM_get_coordinates(resp) ==
  LET exc == BodyRaises(resp) IN
    IF exc = "none" THEN BodyValue(resp)
    ELSE IF IsRequestException(exc) \/ IsValueError(exc) \/ IsTypeError(exc)
      THEN Returned(None, None)
    ELSE Raised(exc)

\* One pass of the attempt loop of NominatimOSM / PhotonOSM.get_coordinates:
\*   "return"  the loop returns coordinates
\*   "retry"   the loop goes on to the next attempt (pause: time.sleep(1)
\*             in the except branch, nothing when the answer was empty)
\*   "raise"   the exception leaves get_coordinates
Attempt(exc, resp) ==
  IF exc = "none"
    THEN IF resp.t = "Good"
           THEN [next |-> "return", res |-> BodyValue(resp), pause |-> 0]
           ELSE [next |-> "retry", res |-> Returned(None, None), pause |-> 0]
    ELSE IF IsRequestException(exc)
      THEN [next |-> "retry", res |-> Returned(None, None), pause |-> 10]
      ELSE [next |-> "raise", res |-> Raised(exc), pause |-> 0]

\* MultiServiceGeocoder.get_coordinates_nominatim / get_coordinates_photon:
\* except requests.RequestException, except ValueError, return None, None
StaticMethod(exc, resp) ==
  IF exc = "none" THEN BodyValue(resp)
  ELSE IF IsRequestException(exc) \/ IsValueError(exc)
    THEN Returned(None, None)
  ELSE Raised(exc)

\* the chain of MultiServiceGeocoder.get_coordinates, in calling order
MethodsFirstTwice == <<"nominatim", "nominatim", "photon", "GeocodeMapsCo">>
Methods == <<"nominatim", "photon", "GeocodeMapsCo">>

\* MultiServiceGeocoder.get_coordinates_GeocodeMapsCo, before the request:
\* reading the unbound global raises NameError; past the limit the print
\* reads the local name e before any except clause bound it
QuotaGate(counter) ==
  IF counter = Unbound THEN "NameError"
  ELSE IF counter > GeocodeMapsCoLimit THEN "UnboundLocalError"
  ELSE "none"

\* currGeocodeMapsCo = currGeocodeMapsCo + 1, after raise_for_status passed
CounterAfter(counter, exc) ==
  IF exc \in {"Timeout", "HTTPError"} THEN counter ELSE counter + 1

\* the branch of a parser that an answer takes:
\*   "coords"  the try body returns floats
\*   "empty"   the try body ends without returning (if data: is false)
\*   "error"   an exception of the requests library
\*   otherwise the name of the exception raised by indexing or float()
Branch(exc, resp) ==
  IF exc = "none" THEN (IF resp.t = "Good" THEN "coords" ELSE "empty")
  ELSE IF IsRequestException(exc) THEN "error"
  ELSE exc

\* one entry of calls: which parser sent a request, the branch its answer
\* took, and the time.sleep (tenths of a second) that followed inside
\* get_coordinates
Call(p, exc, resp, pause) ==
  [p |-> p, t |-> Branch(exc, resp), pause |-> pause]

InitSeq ==
  /\ rows \in InputFiles(MaxSeqRows)
  /\ geocoder \in Geocoders
  /\ currGeocodeMapsCo \in
       {Unbound} \cup ((GeocodeMapsCoLimit - QuotaSlack)..GeocodeMapsCoLimit)
  /\ metered = [start |-> currGeocodeMapsCo, sent |-> 0]
  /\ pc = "open"
  /\ resolutions = [a \in Address |-> 0]
  /\ output = <<>>
  /\ cur = 0
  /\ method = 0
  /\ calls = <<>>
  /\ response = NoResponse
  /\ error = "none"
  /\ max_workers = 0
  /\ submitted = 0
  /\ future = <<>>
  /\ snapshot = {}
  /\ waiter = <<>>
  /\ yielded = {}
  /\ IdleQuota
  /\ IdleCsv

\* header = next(reader); writer.writerow(["latitude", "longitude"] + header)
Seq_WriteHeader ==
  /\ pc = "open"
  /\ output' = Append(output, HeaderRow)
  /\ pc' = "loop"
  /\ UNCHANGED <<rows, resolutions, mwVars, seqVars, auxVars>>

\* for row in reader: ... self.get_coordinates(location)   (the call is made)
Seq_NextRow ==
  /\ pc = "loop"
  /\ cur < Len(rows)
  /\ cur' = cur + 1
  /\ method' = 1
  /\ calls' = <<>>
  /\ response' = NoResponse
  /\ resolutions' = Count(resolutions, Location(rows[cur + 1]))
  /\ pc' = "resolve"
  /\ UNCHANGED <<rows, output, mwVars, auxVars, geocoder, currGeocodeMapsCo, metered,
                 error>>

\* the reader is exhausted, the with-block closes both files
Seq_Close ==
  /\ pc = "loop"
  /\ cur = Len(rows)
  /\ pc' = "done"
  /\ UNCHANGED <<rows, resolutions, output, mwVars, seqVars, auxVars>>

\* get_coordinates is over for the current row: either
\*   new_row = [latitude, longitude] + row; writer.writerow(new_row)
\* or the exception leaves add_coordinates_and_save
Seq_Finish(res) ==
  IF res.kind = "raise"
    THEN /\ pc' = "crashed"
         /\ error' = res.exc
         /\ output' = output
    ELSE /\ pc' = "loop"
         /\ error' = error
         /\ output' = Append(output, DataRow(res.lat, res.lon, rows[cur], cur))

\* classes with a single request per address
Seq_Single(cls, res, resp) ==
  /\ pc = "resolve"
  /\ geocoder = cls
  /\ response' = resp
  /\ calls' = Append(calls, Call(cls, BodyRaises(resp), resp, 0))
  /\ Seq_Finish(res)
  /\ UNCHANGED <<rows, resolutions, mwVars, auxVars, geocoder, cur, method,
                 currGeocodeMapsCo, metered>>

Seq_YandexMap(resp) ==
  Seq_Single("YandexMap", YandexMap_get_coordinates(resp), resp)

Seq_GeoCheckOSM(resp) ==
  Seq_Single("GeoCheckOSM", GeoCheckOSM_get_coordinates(resp), resp)

\* classes with the attempt loop: one request of the loop
Seq_Attempt(cls, exc, resp) ==
  LET a == Attempt(exc, resp) IN
    /\ pc = "resolve"
    /\ geocoder = cls
    /\ response' = resp
    /\ calls' = Append(calls, Call(cls, exc, resp, a.pause))
    /\ IF a.next = "retry" /\ method < Attempts
         THEN /\ method' = method + 1
              /\ UNCHANGED <<pc, error, output>>
         ELSE /\ method' = method
              /\ Seq_Finish(a.res)          \* return None, None after the loop
    /\ UNCHANGED <<rows, resolutions, mwVars, auxVars, geocoder, cur,
                   currGeocodeMapsCo, metered>>

Seq_NominatimOSM(resp) ==
  Seq_Attempt("NominatimOSM", BodyRaises(resp), resp)

Seq_PhotonOSM(resp) ==
  Seq_Attempt("PhotonOSM", PhotonBodyRaises(resp), resp)

\* MultiServiceGeocoder.get_coordinates after method(address) gave res:
\*   if latitude and longitude: return ...; time.sleep(1.5); next method;
\*   return None, None after the last one
Seq_Chain(res) ==
  IF res.kind = "ret" /\ ~(Truthy(res.lat) /\ Truthy(res.lon))
       /\ method < Len(Methods)
    THEN /\ method' = method + 1
         /\ UNCHANGED <<pc, error, output>>
    ELSE /\ method' = method
         /\ Seq_Finish(IF res.kind = "ret" /\ ~(Truthy(res.lat) /\ Truthy(res.lon))
                         THEN Returned(None, None) ELSE res)

ChainPauseNever(res) == 0
ChainPause(res) ==
  IF res.kind = "ret" /\ ~(Truthy(res.lat) /\ Truthy(res.lon)) THEN 15 ELSE 0

Seq_MSG_nominatim(resp) ==
  LET res == StaticMethod(BodyRaises(resp), resp) IN
    /\ pc = "resolve"
    /\ geocoder = "MultiServiceGeocoder"
    /\ Methods[method] = "nominatim"
    /\ response' = resp
    /\ calls' = Append(calls, Call("nominatim", BodyRaises(resp), resp, ChainPause(res)))
    /\ Seq_Chain(res)
    /\ UNCHANGED <<rows, resolutions, mwVars, auxVars, geocoder, cur,
                   currGeocodeMapsCo, metered>>

Seq_MSG_photon(resp) ==
  LET res == StaticMethod(PhotonBodyRaises(resp), resp) IN
    /\ pc = "resolve"
    /\ geocoder = "MultiServiceGeocoder"
    /\ Methods[method] = "photon"
    /\ response' = resp
    /\ calls' = Append(calls, Call("photon", PhotonBodyRaises(resp), resp, ChainPause(res)))
    /\ Seq_Chain(res)
    /\ UNCHANGED <<rows, resolutions, mwVars, auxVars, geocoder, cur,
                   currGeocodeMapsCo, metered>>

\* get_coordinates_GeocodeMapsCo stopped by its quota check: no request
Seq_MSG_QuotaGate ==
  /\ pc = "resolve"
  /\ geocoder = "MultiServiceGeocoder"
  /\ Methods[method] = "GeocodeMapsCo"
  /\ QuotaGate(currGeocodeMapsCo) # "none"
  /\ response' = NoResponse
  /\ Seq_Chain(Raised(QuotaGate(currGeocodeMapsCo)))
  /\ UNCHANGED <<rows, resolutions, mwVars, auxVars, geocoder, cur, calls,
                 currGeocodeMapsCo, metered>>

\* get_coordinates_GeocodeMapsCo sends its request
Seq_MSG_GeocodeMapsCo(resp) ==
  LET res == StaticMethod(BodyRaises(resp), resp) IN
    /\ pc = "resolve"
    /\ geocoder = "MultiServiceGeocoder"
    /\ Methods[method] = "GeocodeMapsCo"
    /\ QuotaGate(currGeocodeMapsCo) = "none"
    /\ currGeocodeMapsCo' = CounterAfter(currGeocodeMapsCo, BodyRaises(resp))
    /\ metered' = [metered EXCEPT !.sent = @ + 1]
    /\ response' = resp
    /\ calls' = Append(calls, Call("GeocodeMapsCo", BodyRaises(resp), resp, ChainPause(res)))
    /\ Seq_Chain(res)
    /\ UNCHANGED <<rows, resolutions, mwVars, auxVars, geocoder, cur>>

NextSeq ==
  \/ Seq_WriteHeader
  \/ Seq_NextRow
  \/ Seq_Close
  \/ \E resp \in Responses : Seq_YandexMap(resp)
  \/ \E resp \in Responses : Seq_GeoCheckOSM(resp)
  \/ \E resp \in Responses : Seq_NominatimOSM(resp)
  \/ \E resp \in Responses : Seq_PhotonOSM(resp)
  \/ \E resp \in Responses : Seq_MSG_nominatim(resp)
  \/ \E resp \in Responses : Seq_MSG_photon(resp)
  \/ Seq_MSG_QuotaGate
  \/ \E resp \in Responses : Seq_MSG_GeocodeMapsCo(resp)

SpecSeq == InitSeq /\ [][NextSeq]_vars

\* =========================================================================
\* MultiServiceGeocoder.get_coordinates_GeocodeMapsCo, a static method, called
\* by several threads at once.  currGeocodeMapsCo is a module global and the
\* method takes no lock.
\* =========================================================================

\* neither driver of the enrichment runs
IdleDrivers ==
  /\ rows = <<>>
  /\ pc = "none"
  /\ resolutions = [a \in Address |-> 0]
  /\ output = <<>>
  /\ max_workers = 0
  /\ submitted = 0
  /\ future = <<>>
  /\ snapshot = {}
  /\ waiter = <<>>
  /\ yielded = {}
  /\ geocoder = "none"
  /\ cur = 0
  /\ method = 0
  /\ calls = <<>>
  /\ response = NoResponse
  /\ error = "none"

\* a thread that has not entered the method yet:
\*   at       position inside the method
\*   read     the value of currGeocodeMapsCo it loaded for the addition
\*   counted  1 once it has stored currGeocodeMapsCo + 1
\*   res      how its call ended
NoCall == [at |-> "call", read |-> Unbound, counted |-> 0, res |-> "none"]

InitQuota ==
  /\ IdleDrivers
  /\ IdleCsv
  /\ currGeocodeMapsCo \in
       {Unbound} \cup ((GeocodeMapsCoLimit - QuotaSlack)..GeocodeMapsCoLimit)
  /\ metered = [start |-> currGeocodeMapsCo, sent |-> 0]
  /\ threads = [t \in 1..QuotaThreads |-> NoCall]

\* if currGeocodeMapsCo > 4800: the read of the global that guards the request
Q_Gate(t) ==
  /\ threads[t].at = "call"
  /\ threads' = [threads EXCEPT ![t] =
                   IF QuotaGate(currGeocodeMapsCo) = "none"
                     THEN [@ EXCEPT !.at = "request"]
                     ELSE [@ EXCEPT !.at = "done",
                                    !.res = QuotaGate(currGeocodeMapsCo)]]
  /\ UNCHANGED <<rows, pc, resolutions, output, mwVars, seqVars, csvVars>>

\* requests.get(...); response.raise_for_status()
Q_Request(t, resp) ==
  /\ threads[t].at = "request"
  /\ metered' = [metered EXCEPT !.sent = @ + 1]
  /\ threads' = [threads EXCEPT ![t] =
                   IF CounterAfter(0, BodyRaises(resp)) = 0
                     THEN [@ EXCEPT !.at = "done",
                                    !.res = Branch(BodyRaises(resp), resp)]
                     ELSE [@ EXCEPT !.at = "load",
                                    !.res = Branch(BodyRaises(resp), resp)]]
  /\ UNCHANGED <<rows, pc, resolutions, output, mwVars, csvVars, geocoder,
                 cur, method, calls, response, currGeocodeMapsCo, error>>

\* currGeocodeMapsCo = currGeocodeMapsCo + 1: the right-hand side loads the
\* global
Q_Load(t) ==
  /\ threads[t].at = "load"
  /\ threads' = [threads EXCEPT ![t].at = "store",
                                ![t].read = currGeocodeMapsCo]
  /\ UNCHANGED <<rows, pc, resolutions, output, mwVars, seqVars, csvVars>>

\* ... and the sum of the loaded value and 1 is stored into the global; the
\* rest of the method works on the thread's own response
Q_Store(t) ==
  /\ threads[t].at = "store"
  /\ currGeocodeMapsCo' = CounterAfter(threads[t].read, "none")
  /\ threads' = [threads EXCEPT ![t].at = "done", ![t].counted = 1]
  /\ UNCHANGED <<rows, pc, resolutions, output, mwVars, csvVars, geocoder,
                 cur, method, calls, response, metered, error>>

NextQuota ==
  \/ \E t \in DOMAIN threads : Q_Gate(t)
  \/ \E t \in DOMAIN threads : \E resp \in PoolResponses : Q_Request(t, resp)
  \/ \E t \in DOMAIN threads : Q_Load(t)
  \/ \E t \in DOMAIN threads : Q_Store(t)

SpecQuota == InitQuota /\ [][NextQuota]_vars

\* =========================================================================
\* CsvReader.read (utils/data_reader.py) and SkipFilter.filter
\* (utils/data_filter.py)
\* =========================================================================

\* A field of a csv row is the sequence of its characters; a row is the
\* sequence of its fields: location, child_weight, child_height and the risk
\* factors.

\* if len(row) != 77
FieldCount == 77

\* re.split(r"[,/\.]", ...)
Separators == {",", "/", "."}

\* characters str.strip() removes
Whitespace == {" "}

Digits == <<"0", "1", "2", "3", "4", "5", "6", "7", "8", "9">>

\* re.split: the pieces between the separators, empty pieces included
RECURSIVE Split(_)
Split(field) ==
  IF \A i \in DOMAIN field : field[i] \notin Separators
    THEN <<field>>
    ELSE LET i == CHOOSE i \in DOMAIN field :
                    /\ field[i] \in Separators
                    /\ \A j \in 1..(i - 1) : field[j] \notin Separators
         IN <<SubSeq(field, 1, i - 1)>>
              \o Split(SubSeq(field, i + 1, Len(field)))

\* part.strip()
RECURSIVE Strip(_)
Strip(part) ==
  IF part # <<>> /\ Head(part) \in Whitespace
    THEN Strip(Tail(part))
  ELSE IF part # <<>> /\ part[Len(part)] \in Whitespace
    THEN Strip(SubSeq(part, 1, Len(part) - 1))
  ELSE part

\* [part.strip() for part in re.split(r"[,/\.]", field)]
Parts(field) == [i \in DOMAIN Split(field) |-> Strip(Split(field)[i])]

\* set(map(len, parts))
Widths(parts) == {Len(parts[i]) : i \in DOMAIN parts}

\* the condition under which read() raises and filter() skips the row
RejectedIgnoringHeightWidths(location, w_parts, h_parts) ==
  \/ Len(w_parts) # Len(h_parts)
  \/ Cardinality(Widths(w_parts)) # 1
  \/ Len(w_parts[1]) = 0
  \/ Len(location) = 0
Rejected(location, w_parts, h_parts) ==
  \/ Len(w_parts) # Len(h_parts)
  \/ Cardinality(Widths(w_parts)) # 1
  \/ Cardinality(Widths(h_parts)) # 1
  \/ Len(w_parts[1]) = 0
  \/ Len(location) = 0

\* if len(row) != 77
WrongFieldCountNever(row) == FALSE
WrongFieldCount(row) == Len(row) # FieldCount

\* int(part) accepts an optional sign followed by decimal digits
Unsigned(part) ==
  IF part # <<>> /\ Head(part) \in {"+", "-"} THEN Tail(part) ELSE part
IsInt(part) ==
  /\ Unsigned(part) # <<>>
  /\ \A i \in DOMAIN Unsigned(part) :
       \E d \in DOMAIN Digits : Digits[d] = Unsigned(part)[i]
DigitValue(c) == (CHOOSE d \in DOMAIN Digits : Digits[d] = c) - 1
RECURSIVE Magnitude(_)
Magnitude(digits) ==
  IF digits = <<>> THEN 0
  ELSE 10 * Magnitude(SubSeq(digits, 1, Len(digits) - 1))
         + DigitValue(digits[Len(digits)])
int(part) ==
  IF Head(part) = "-" THEN 0 - Magnitude(Unsigned(part))
  ELSE Magnitude(Unsigned(part))

\* bool(data) of a string
BoolOfNumber(data) == data # <<>> /\ data # <<"0">>
Bool(data) == data # <<>>

\* location, child_weight, child_height, *risk_factors = row
RiskFactors(row) == SubSeq(row, 4, Len(row))

\* row_data = (str(location), int(w), int(h), *[bool(data) ...]); src is the
\* number of the file line the record was made from
Record(row, src, w, h) ==
  [src |-> src,
   location |-> row[1],
   child_weight |-> int(w),
   child_height |-> int(h),
   risk_factors |-> [j \in DOMAIN RiskFactors(row) |-> Bool(RiskFactors(row)[j])]]

\* for i in range(len(child_height_parts)): the records appended to
\* parsed_data before int() raises ValueError, or all of them
Expand(row, src, w_parts, h_parts) ==
  LET Good(i) == IsInt(w_parts[i]) /\ IsInt(h_parts[i])
      n == Cardinality({i \in DOMAIN h_parts : \A j \in 1..i : Good(j)})
  IN [records |-> [i \in 1..n |-> Record(row, src, w_parts[i], h_parts[i])],
      exc |-> IF n = Len(h_parts) THEN "none" ELSE "ValueError"]

\* the body of the loop of read() for one row
CsvReader_Row(row, src) ==
  IF WrongFieldCount(row) THEN [records |-> <<>>, exc |-> "ValueError"]
  ELSE IF Rejected(row[1], Parts(row[2]), Parts(row[3]))
    THEN [records |-> <<>>, exc |-> "ValueError"]
  ELSE Expand(row, src, Parts(row[2]), Parts(row[3]))

\* the body of the loop of filter() for one row
SkipFilter_RowKeepsAll(row) == "write"
SkipFilter_Row(row) ==
  IF WrongFieldCount(row) THEN "continue"
  ELSE IF Rejected(row[1], Parts(row[2]), Parts(row[3])) THEN "continue"
  ELSE "write"

\* ---- the lines tried as file content
\* the risk factor fields of a line: present ("0" or "1") or absent, in turn
RiskSample == [j \in 1..(FieldCount - 3) |->
                 IF j % 3 = 1 THEN <<"1">>
                 ELSE IF j % 3 = 2 THEN <<>> ELSE <<"0">>]
Line(location, weight, height) == <<location, weight, height>> \o RiskSample

HeaderLine == [j \in 1..FieldCount |-> <<"n">>]
TwoPairs == Line(<<"a">>, <<"1", "0", ",", " ", "1", "2">>,
                          <<"4", "0", "/", "4", "5">>)
OnePair == Line(<<"b">>, <<"5">>, <<"6">>)
WeightWidthsDiffer == Line(<<"a">>, <<"1", ",", "2", "3">>, <<"3", ",", "4">>)
HeightWidthsDiffer == Line(<<"a">>, <<"1", ",", "2">>, <<"3", ".", "4", "5">>)
CountsDiffer == Line(<<"a">>, <<"1", ",", "2">>, <<"3">>)
EmptyWeight == Line(<<"a">>, <<>>, <<>>)
EmptyHeight == Line(<<"a">>, <<"5">>, <<>>)
NotANumber == Line(<<"a">>, <<"x">>, <<"6">>)
SecondNotANumber == Line(<<"a">>, <<"1", ",", "x">>, <<"3", ",", "4">>)
EmptyLocation == Line(<<>>, <<"5">>, <<"6">>)
ShortLine == SubSeq(OnePair, 1, FieldCount - 1)
LongLine == Append(OnePair, <<>>)

Lines == {HeaderLine, TwoPairs, OnePair, WeightWidthsDiffer,
          HeightWidthsDiffer, CountsDiffer, EmptyWeight, EmptyHeight,
          NotANumber, SecondNotANumber, EmptyLocation, ShortLine, LongLine}

\* ---- the two tools
\* CsvReader(filepath) / SkipFilter(input_filepath, output_filepath)
InitCsv ==
  /\ IdleDrivers
  /\ IdleQuota
  /\ currGeocodeMapsCo = Unbound
  /\ metered = [start |-> Unbound, sent |-> 0]
  /\ tool \in {"CsvReader", "SkipFilter"}
  /\ add_header = TRUE
  /\ file = <<>>
  /\ csv_pc = "new"
  /\ parsed_data = <<>>
  /\ filtered = <<>>
  /\ csv_error = "none"

\* the owner of the reader clears its public attribute before calling read()
Reader_ClearAddHeader ==
  /\ tool = "CsvReader"
  /\ csv_pc = "new"
  /\ add_header
  /\ add_header' = FALSE
  /\ UNCHANGED <<rows, pc, resolutions, output, mwVars, seqVars, threads,
                 tool, file, csv_pc, parsed_data, filtered, csv_error>>

\* parsed_data = []; open; reader = csv.reader(...); if not self.add_header:
Reader_Open ==
  /\ tool = "CsvReader"
  /\ csv_pc = "new"
  /\ csv_pc' = IF add_header THEN "loop" ELSE "skip"
  /\ UNCHANGED <<rows, pc, resolutions, output, mwVars, seqVars, threads,
                 tool, add_header, file, parsed_data, filtered, csv_error>>

\* next(reader, [])
Reader_SkipHeader(line) ==
  /\ tool = "CsvReader"
  /\ csv_pc = "skip"
  /\ file' = Append(file, line)
  /\ csv_pc' = "loop"
  /\ UNCHANGED <<rows, pc, resolutions, output, mwVars, seqVars, threads,
                 tool, add_header, parsed_data, filtered, csv_error>>

\* one pass of `for row in reader:`; a ValueError leaves the loop and is
\* raised again as ValueError("Data format error ...")
Reader_Row(line) ==
  LET out == CsvReader_Row(line, Len(file) + 1) IN
    /\ tool = "CsvReader"
    /\ csv_pc = "loop"
    /\ Len(file) < MaxLines
    /\ file' = Append(file, line)
    /\ parsed_data' = parsed_data \o out.records
    /\ csv_pc' = IF out.exc = "none" THEN "loop" ELSE "raised"
    /\ csv_error' = out.exc
    /\ UNCHANGED <<rows, pc, resolutions, output, mwVars, seqVars, threads,
                   tool, add_header, filtered>>

\* the file has no further line: return parsed_data
Reader_Return ==
  /\ tool = "CsvReader"
  /\ csv_pc \in {"skip", "loop"}
  /\ csv_pc' = "returned"
  /\ UNCHANGED <<rows, pc, resolutions, output, mwVars, seqVars, threads,
                 tool, add_header, file, parsed_data, filtered, csv_error>>

\* header = next(reader); writer.writerow(header)
Filter_Header(line) ==
  /\ tool = "SkipFilter"
  /\ csv_pc = "new"
  /\ file' = Append(file, line)
  /\ filtered' = Append(filtered, [src |-> 1, row |-> line])
  /\ csv_pc' = "loop"
  /\ UNCHANGED <<rows, pc, resolutions, output, mwVars, seqVars, threads,
                 tool, add_header, parsed_data, csv_error>>

\* header = next(reader) on a file without lines: StopIteration, which none
\* of the except clauses catches
Filter_NoHeader ==
  /\ tool = "SkipFilter"
  /\ csv_pc = "new"
  /\ csv_pc' = "raised"
  /\ csv_error' = "StopIteration"
  /\ UNCHANGED <<rows, pc, resolutions, output, mwVars, seqVars, threads,
                 tool, add_header, file, parsed_data, filtered>>

\* one pass of `for row in reader:`
Filter_Row(line) ==
  /\ tool = "SkipFilter"
  /\ csv_pc = "loop"
  /\ Len(file) < MaxLines
  /\ file' = Append(file, line)
  /\ filtered' = IF SkipFilter_Row(line) = "write"
                   THEN Append(filtered, [src |-> Len(file) + 1, row |-> line])
                   ELSE filtered
  /\ UNCHANGED <<rows, pc, resolutions, output, mwVars, seqVars, threads,
                 tool, add_header, csv_pc, parsed_data, csv_error>>

\* the file has no further line: filter() returns
Filter_Return ==
  /\ tool = "SkipFilter"
  /\ csv_pc = "loop"
  /\ csv_pc' = "returned"
  /\ UNCHANGED <<rows, pc, resolutions, output, mwVars, seqVars, threads,
                 tool, add_header, file, parsed_data, filtered, csv_error>>

NextCsv ==
  \/ Reader_ClearAddHeader
  \/ Reader_Open
  \/ \E line \in Lines : Reader_SkipHeader(line)
  \/ \E line \in Lines : Reader_Row(line)
  \/ Reader_Return
  \/ \E line \in Lines : Filter_Header(line)
  \/ Filter_NoHeader
  \/ \E line \in Lines : Filter_Row(line)
  \/ Filter_Return

SpecCsv == InitCsv /\ [][NextCsv]_vars

\* =========================================================================
\* Properties
\* =========================================================================

\* the data rows written so far (everything after the header row)
Written == IF Len(output) <= 1 THEN <<>> ELSE SubSeq(output, 2, Len(output))

\* the driver has left add_coordinates_and_save
Stopped == pc \in {"done", "aborted", "crashed"}

RowsAt(a) == {i \in DOMAIN rows : Location(rows[i]) = a}

TotalResolutions == resolutions["a"] + resolutions["b"]

\* ---- C1: the concurrent enrichment writes the data rows in the order of the
\* input rows, whatever the completion order of the futures
C1_OutputInInputOrder ==
  pc = "done" =>
    /\ Len(Written) = Len(rows)
    /\ \A k \in DOMAIN rows : Written[k].row = rows[k]

\* ---- C2 (as claimed): the number of get_coordinates invocations of a batch
\* equals the number of distinct addresses, and at most one resolution per
\* address is in flight at any moment
C2_OneResolutionPerDistinctAddress ==
  /\ \A a \in Address :
       Cardinality({i \in Running : Location(rows[i]) = a}) <= 1
  /\ pc = "done" =>
       TotalResolutions = Cardinality({Location(rows[i]) : i \in DOMAIN rows})

\* ---- C2 (amended): the concurrent driver invokes get_coordinates once per
\* input row: at every moment the invocations for an address are the rows of
\* that address whose call has started, and when the batch is done their
\* total is the number of rows N, duplicates included, for every max_workers
C2_OneResolutionPerRow ==
  /\ \A a \in Address :
       resolutions[a] =
         Cardinality({i \in RowsAt(a) : future[i].st \in {"running", "finished"}})
  /\ Stopped => TotalResolutions = Len(rows)

\* a finished batch in which two rows share their address and each was resolved
C2_Witness ==
  /\ pc = "done"
  /\ Len(rows) = 2
  /\ Location(rows[1]) = Location(rows[2])
  /\ resolutions[Location(rows[1])] = 2

\* ---- C3 (as claimed): resolving the same address twice in sequence issues
\* at most one resolution call, whatever the first outcome was
C3_SecondResolutionFromCache ==
  \A a \in Address : resolutions[a] <= 1

\* ---- C3 (amended): the sequential driver keeps no result: every row whose
\* processing has begun has invoked get_coordinates once, so an address that
\* occurs in k processed rows has been resolved k times, whatever the earlier
\* outcomes were
C3_EveryRowResolvedAgain ==
  \A a \in Address :
    resolutions[a] = Cardinality({i \in RowsAt(a) : i <= cur})

\* the second of two rows with the same address is being resolved after the
\* first one was written unresolved
C3_Witness ==
  /\ cur = 2
  /\ Location(rows[1]) = Location(rows[2])
  /\ Len(output) >= 2 /\ output[2].lat = None
  /\ resolutions[Location(rows[1])] = 2

\* ---- C4: in the concurrent enrichment every input row is written exactly
\* once: no row is written twice at any time, and when the driver stops the
\* data rows written are the input rows, one for one
C4_EveryRowWrittenOnce ==
  /\ \A k1, k2 \in DOMAIN Written :
       Written[k1].src = Written[k2].src => k1 = k2
  /\ \A k \in DOMAIN Written :
       Written[k].src \in DOMAIN rows /\ Written[k].row = rows[Written[k].src]
  /\ Stopped =>
       /\ Len(Written) = Len(rows)
       /\ \A i \in DOMAIN rows : \E k \in DOMAIN Written : Written[k].src = i

\* a finished batch of two identical rows, both written
C4_Witness ==
  /\ pc = "done"
  /\ Len(rows) = 2
  /\ rows[1] = rows[2]
  /\ Len(Written) = 2

\* ---- C5: when get_coordinates raises for a record, that record is written
\* with (None, None) and every other record is still resolved and written
\* with its own result: the batch is never aborted
C5_FailureDoesNotAbortBatch ==
  /\ pc # "aborted"
  /\ \A k \in DOMAIN Written :
       LET res == future[Written[k].src].res IN
         IF res.kind = "raise"
           THEN Written[k].lat = None /\ Written[k].lon = None
           ELSE Written[k].lat = res.lat /\ Written[k].lon = res.lon
  /\ Stopped => \A i \in DOMAIN rows : \E k \in DOMAIN Written : Written[k].src = i

\* a finished batch in which one call raised and another returned coordinates
C5_Witness ==
  /\ pc = "done"
  /\ \E i, j \in DOMAIN rows :
       /\ future[i].res.kind = "raise"
       /\ future[j].res.kind = "ret" /\ future[j].res.lat # None
       /\ \E k \in DOMAIN Written : Written[k].src = i /\ Written[k].lat = None
       /\ \E k \in DOMAIN Written : Written[k].src = j /\ Written[k].lat # None

\* the fallback chain is running and the resolution of the current row is over
ChainOver == geocoder = "MultiServiceGeocoder" /\ cur >= 1 /\ pc # "resolve"

\* P1 (nominatim) failed with a network error each time it was called and
\* P2 (photon) then returned usable coordinates
FirstFailsSecondAnswers ==
  /\ ChainOver
  /\ \E k \in DOMAIN calls : calls[k].p = "photon" /\ calls[k].t = "coords"
  /\ \A k \in DOMAIN calls : calls[k].p = "nominatim" => calls[k].t = "error"
  /\ calls[Len(calls)].p = "photon"
  /\ Truthy(response.lat) /\ Truthy(response.lon)

NumCalls(p) == Cardinality({k \in DOMAIN calls : calls[k].p = p})

C7_NoResultNotRetried ==
  \A k \in DOMAIN calls :
    calls[k].t = "empty" =>
      \A j \in DOMAIN calls : j > k => calls[j].p # calls[k].p

\* ---- C8: for every combination of provider outcomes the fallback resolve
\* returns coordinates or (None, None) and never raises, also when the quota
\* of the metered provider is exhausted
C8_ResolveNeverRaises ==
  geocoder = "MultiServiceGeocoder" => pc # "crashed" /\ error = "none"

\* the quota of the metered provider (geocode.maps.co) is used up
QuotaExhausted ==
  currGeocodeMapsCo # Unbound /\ currGeocodeMapsCo > GeocodeMapsCoLimit

C10_ProviderFailuresNormalised ==
  response.t \in {"MissingKeys", "Non2xx", "Timeout"} =>
    pc # "crashed" /\ error = "none"

\* the resolution of the current row is over and no provider had an answer:
\* every request ended in a network error or an answer without a match
NoProviderAnswered ==
  /\ cur >= 1
  /\ pc # "resolve"
  /\ calls # <<>>
  /\ \A k \in DOMAIN calls : calls[k].t \in {"empty", "error"}

\* ---- C14: the output starts with the header row [latitude, longitude] +
\* header, written before any data row; every data row is [latitude,
\* longitude] followed by the fields of its input row, unchanged; an address
\* that no provider resolves is written with the (None, None) coordinates and
\* the run goes on without aborting
C14_OutputFrame ==
  /\ Len(output) >= 1 => output[1] = HeaderRow
  /\ \A k \in DOMAIN Written :
       /\ Written[k].src \in DOMAIN rows
       /\ Written[k] = DataRow(Written[k].lat, Written[k].lon,
                               rows[Written[k].src], Written[k].src)
  /\ NoProviderAnswered =>
       /\ pc # "crashed"
       /\ output[Len(output)] = DataRow(None, None, rows[cur], cur)

\* ---- C17: in the fallback chain, as soon as a provider returns coordinates
\* (whatever their value, a latitude or longitude of 0.0 included) resolve
\* returns exactly them and calls no lower-priority provider
C17_FirstCoordinateReturned ==
  geocoder = "MultiServiceGeocoder" =>
    \A k \in DOMAIN calls :
      calls[k].t = "coords" =>
        /\ k = Len(calls)
        /\ pc # "resolve"
        /\ output[Len(output)] =
             DataRow(response.lat, response.lon, rows[cur], cur)

\* requests the metered provider has received: those counted before the run
\* began and those sent during the run
QuotaUsed == metered.start + metered.sent

C18_ResultStaysWithItsRow ==
  \A k \in DOMAIN Written :
    LET i == Written[k].src IN
      /\ i \in Finished
      /\ Written[k].row = rows[i]
      /\ future[i].arg = Written[k].row[3]
      /\ Written[k].lat = CollectResult(future[i]).lat
      /\ Written[k].lon = CollectResult(future[i]).lon

\* two rows with different addresses written out of input order, each with
\* the coordinates of its own call, which differ
C18_Witness ==
  /\ Len(Written) = 2
  /\ Written[1].src = 2 /\ Written[2].src = 1
  /\ Written[1].row[3] # Written[2].row[3]
  /\ Written[1].lat # Written[2].lat
  /\ Written[1].lat = future[2].res.lat
  /\ Written[2].lat = future[1].res.lat

\* ---- C20: at every moment of a concurrent run at most max_workers calls of
\* get_coordinates are in progress, and only the driver thread writes output
\* rows (a step of a worker thread leaves the output as it is)
C20_BoundedCallsSingleWriter ==
  /\ [](Cardinality(Running) <= max_workers)
  /\ [][output' # output =>
          (future' = future /\ resolutions' = resolutions
             /\ pc \in {"open", "collect"})]_vars

\* the pool is full while a submitted call still waits in the queue
C20_Witness ==
  /\ Cardinality(Running) = max_workers
  /\ Pending # {}
  /\ Len(output) >= 1

\* the threads that have stored an incremented counter
RECURSIVE CountedCalls(_)
CountedCalls(n) ==
  IF n = 0 THEN 0 ELSE threads[n].counted + CountedCalls(n - 1)

Validated ==
  {i \in DOMAIN file :
     i > (IF tool = "SkipFilter" \/ ~add_header THEN 1 ELSE 0)}

\* the records read() made from line i
RecordsOf(i) ==
  LET FromLine(r) == r.src = i IN SelectSeq(parsed_data, FromLine)

\* filter() wrote line i as a data row
Kept(i) == \E k \in DOMAIN filtered : k > 1 /\ filtered[k].src = i

WeightParts(i) == Parts(file[i][2])
HeightParts(i) == Parts(file[i][3])

\* a line that meets one of the rejection conditions
Malformed(i) ==
  \/ Len(file[i]) # FieldCount
  \/ Rejected(file[i][1], WeightParts(i), HeightParts(i))

\* every component of weight and height is an integer literal
AllNumbers(i) ==
  /\ \A j \in DOMAIN WeightParts(i) : IsInt(WeightParts(i)[j])
  /\ \A j \in DOMAIN HeightParts(i) : IsInt(HeightParts(i)[j])

\* ---- C11 (as claimed): a row whose field count is not 77 yields no record,
\* is not written, and nothing is raised: the run goes on with the rows that
\* follow it
C11_WrongFieldCountNeverRaises ==
  \A i \in Validated :
    Len(file[i]) # FieldCount =>
      /\ RecordsOf(i) = <<>>
      /\ ~Kept(i)
      /\ csv_pc # "raised"

\* ---- C11 (amended): a row whose field count is not 77 yields no record and
\* is not written; SkipFilter.filter skips it and goes on with the rows that
\* follow, CsvReader.read raises ValueError at that row and reads no further
C11_WrongFieldCountSkippedOrRaised ==
  \A i \in Validated :
    Len(file[i]) # FieldCount =>
      /\ RecordsOf(i) = <<>>
      /\ ~Kept(i)
      /\ tool = "SkipFilter" => csv_pc # "raised"
      /\ tool = "CsvReader" =>
           /\ csv_pc = "raised"
           /\ csv_error = "ValueError"
           /\ i = Len(file)

\* the filter met a 76-field row and wrote the valid row after it
C11_Witness ==
  /\ tool = "SkipFilter"
  /\ file = <<HeaderLine, ShortLine, OnePair>>
  /\ Len(filtered) = 2
  /\ filtered[2] = [src |-> 3, row |-> OnePair]
  /\ csv_pc = "returned"

\* ---- C12 (as claimed): every 77-field row that passes the rejection
\* conditions and whose weight and height split into k components yields
\* exactly k records; record j carries int(weight_parts[j]) and
\* int(height_parts[j]), and all k carry the row's location and its risk
\* fields coerced to True iff non-empty
C12_ValidRowYieldsKRecords ==
  tool = "CsvReader" =>
    \A i \in Validated :
      (Len(file[i]) = FieldCount /\ ~Malformed(i)) =>
        /\ Len(RecordsOf(i)) = Len(WeightParts(i))
        /\ \A j \in DOMAIN RecordsOf(i) :
             /\ RecordsOf(i)[j].location = file[i][1]
             /\ RecordsOf(i)[j].child_weight = int(WeightParts(i)[j])
             /\ RecordsOf(i)[j].child_height = int(HeightParts(i)[j])
             /\ RecordsOf(i)[j].risk_factors =
                  [r \in 1..(FieldCount - 3) |-> file[i][3 + r] # <<>>]

\* ---- C12 (amended): the above holds for the rows whose components are all
\* integer literals; for a row that passes the rejection conditions with a
\* component int() does not accept, read() keeps only the records before that
\* component and raises ValueError
C12_NumericRowYieldsKRecords ==
  tool = "CsvReader" =>
    \A i \in Validated :
      (Len(file[i]) = FieldCount /\ ~Malformed(i)) =>
        /\ AllNumbers(i) => Len(RecordsOf(i)) = Len(WeightParts(i))
        /\ ~AllNumbers(i) =>
             /\ Len(RecordsOf(i)) < Len(WeightParts(i))
             /\ csv_pc = "raised"
             /\ csv_error = "ValueError"
             /\ i = Len(file)
        /\ \A j \in DOMAIN RecordsOf(i) :
             /\ RecordsOf(i)[j].location = file[i][1]
             /\ RecordsOf(i)[j].child_weight = int(WeightParts(i)[j])
             /\ RecordsOf(i)[j].child_height = int(HeightParts(i)[j])
             /\ RecordsOf(i)[j].risk_factors =
                  [r \in 1..(FieldCount - 3) |-> file[i][3 + r] # <<>>]

\* weight "10, 12" and height "40/45" gave the records (10, 40) and (12, 45)
\* with the same location and risk factors, "0" counting as present
C12_Witness ==
  /\ tool = "CsvReader"
  /\ file = <<TwoPairs>>
  /\ Len(parsed_data) = 2
  /\ parsed_data[1].child_weight = 10 /\ parsed_data[1].child_height = 40
  /\ parsed_data[2].child_weight = 12 /\ parsed_data[2].child_height = 45
  /\ parsed_data[1].location = <<"a">> /\ parsed_data[2].location = <<"a">>
  /\ parsed_data[1].risk_factors = parsed_data[2].risk_factors
  /\ parsed_data[1].risk_factors[1]
  /\ ~parsed_data[1].risk_factors[2]
  /\ parsed_data[1].risk_factors[3]

\* ---- C13: a row in which the components of the weight field, or those of
\* the height field, are not all of the same length is rejected as a whole:
\* read() makes no record from any of its components and filter() does not
\* write it
C13_MixedWidthsRejected ==
  \A i \in Validated :
    (\/ Cardinality(Widths(WeightParts(i))) # 1
     \/ Cardinality(Widths(HeightParts(i))) # 1) =>
      /\ RecordsOf(i) = <<>>
      /\ ~Kept(i)

\* read() kept the two records of the first row and made none from the
\* second, whose weight is "1,23"
C13_Witness ==
  /\ tool = "CsvReader"
  /\ file = <<TwoPairs, WeightWidthsDiffer>>
  /\ Len(parsed_data) = 2
  /\ RecordsOf(2) = <<>>
  /\ csv_pc = "raised"

\* ---- C16 (as claimed): a malformed row is dropped and never aborts the run
\* of the reader or of the filter, so every well-formed row is emitted, also
\* after a malformed one
C16_MalformedRowNeverAborts ==
  \A i \in Validated :
    IF Malformed(i)
      THEN csv_pc # "raised"
      ELSE tool = "SkipFilter" => Kept(i)

\* ---- C16 (amended): SkipFilter.filter drops the malformed rows and writes
\* every other row, unchanged and in input order, whatever came before it;
\* CsvReader.read stops at the first malformed row with ValueError
C16_FilterDropsReaderAborts ==
  /\ tool = "SkipFilter" =>
       /\ \A i \in Validated : Kept(i) <=> ~Malformed(i)
       /\ \A k \in DOMAIN filtered : filtered[k].row = file[filtered[k].src]
       /\ \A k, l \in DOMAIN filtered :
            k < l => filtered[k].src < filtered[l].src
       /\ Validated # {} => csv_pc # "raised"
  /\ tool = "CsvReader" =>
       \A i \in Validated :
         Malformed(i) =>
           /\ csv_pc = "raised"
           /\ csv_error = "ValueError"
           /\ i = Len(file)

\* the filter dropped a row with mixed component widths and wrote the row
\* after it
C16_Witness ==
  /\ tool = "SkipFilter"
  /\ file = <<HeaderLine, HeightWidthsDiffer, TwoPairs>>
  /\ Len(filtered) = 2
  /\ filtered[2] = [src |-> 3, row |-> TwoPairs]
  /\ csv_pc = "returned"

\* ---- C21: every resolve call ends with a result: a class with the attempt
\* loop sends at most Attempts requests per address, the fallback chain makes
\* one pass (at most one request per provider), so the requests per address
\* are bounded, and get_coordinates returns coordinates or (None, None)
ProviderCallsBounded ==
  /\ geocoder \in {"NominatimOSM", "PhotonOSM"} => Len(calls) <= Attempts
  /\ geocoder = "MultiServiceGeocoder" =>
       /\ Len(calls) <= Len(Methods)
       /\ \A k, l \in DOMAIN calls : k < l => calls[k].p # calls[l].p
  /\ geocoder \in {"YandexMap", "GeoCheckOSM"} => Len(calls) <= 1

C21_ResolveEndsWithResult ==
  /\ ProviderCallsBounded
  /\ geocoder \in {"NominatimOSM", "PhotonOSM", "MultiServiceGeocoder"} =>
       pc # "crashed"

\* ---- C22: in the fallback chain a pause of 1.5 s lies between the request
\* to one provider and the request to the next: no two providers are called
\* for the same address without it
C22_PauseBetweenProviders ==
  geocoder = "MultiServiceGeocoder" =>
    \A k \in DOMAIN calls :
      k < Len(calls) =>
        /\ calls[k].p # calls[k + 1].p
        /\ calls[k].pause = 15

\* all three providers were called for one address
C22_Witness ==
  /\ geocoder = "MultiServiceGeocoder"
  /\ Len(calls) = 3
  /\ calls[1].p = "nominatim" /\ calls[2].p = "photon"
  /\ calls[3].p = "GeocodeMapsCo"
  /\ calls[1].pause = 15 /\ calls[2].pause = 15

\* ---- C23: SkipFilter.filter writes no row whose child_weight is empty, whose
\* child_height is empty or whose location is empty
C23_FilterRejectsEmptyValues ==
  tool = "SkipFilter" =>
    \A i \in Validated :
      (file[i][1] = <<>> \/ file[i][2] = <<>> \/ file[i][3] = <<>>) =>
        ~Kept(i)

\* ---- C24: read() of a freshly constructed CsvReader skips the header: the
\* first line of the file is not validated or parsed as a data row, so no
\* record comes from it and it cannot make read() raise
C24_FreshReaderSkipsHeader ==
  (tool = "CsvReader" /\ add_header /\ file # <<>>) =>
    /\ 1 \notin Validated
    /\ \A k \in DOMAIN parsed_data : parsed_data[k].src # 1
    /\ ~(Len(file) = 1 /\ csv_pc = "raised")

\* ---- C25: every data row SkipFilter.filter keeps is accepted by the loop
\* body of CsvReader.read (at least one record, nothing raised), and the
\* output of the filter is the header followed by the kept rows, unchanged and
\* in input order
C25_KeptRowsAcceptedByReader ==
  tool = "SkipFilter" =>
    /\ \A k \in DOMAIN filtered :
         k > 1 =>
           /\ CsvReader_Row(filtered[k].row, filtered[k].src).exc = "none"
           /\ CsvReader_Row(filtered[k].row, filtered[k].src).records # <<>>
    /\ filtered # <<>> => filtered[1] = [src |-> 1, row |-> file[1]]
    /\ \A k \in DOMAIN filtered : filtered[k].row = file[filtered[k].src]
    /\ \A k, l \in DOMAIN filtered : k < l => filtered[k].src < filtered[l].src

====
